---- MODULE Spec2Model ----
(***************************************************************************)
(* A model of the code-chunking pipeline of github-chat-RAG-application:   *)
(*   chunker.py   PythonChunkExtractor (an ast.NodeVisitor) and the repo   *)
(*                driver extract_chunks_from_repo;                         *)
(*   embedder.py  CodeEmbedder (__init__, _load_if_exists, build_index,    *)
(*                _persist, search).                                       *)
(* The extractor is modelled as an explicit stack machine, one step per    *)
(* visit_* entry and one per return, so that the scope variables and the   *)
(* chunk list can be observed between any two nodes of the walk.           *)
(*                                                                         *)
(* Chunk fields that are pure functions of a node and of the file path and *)
(* that no later step reads (file_role, intent_tags, control_flow,         *)
(* docstring, retrieval_text) are left out of the chunk record.            *)
(***************************************************************************)
EXTENDS Integers, Sequences, FiniteSets, TLC

\* ------------------------------------------------------------------ bounds
\* Physical lines read from all parsed files of one run.
MaxLines == 3
\* Paths that rglob yields in one run.
MaxFiles == 2
\* Lines of a file that ends in a header with no body.
MaxBadLines == 1
\* Chunks handed to build_index in one call.
MaxChunks == 2
\* The k of a search call.
MaxK == 2
\* Deepest indentation of a line.
MaxIndent == 2

\* Python's None, where the other values are strings.
None == "None"

\* --------------------------------------------------------- source files
\* A physical line is a statement at an indentation level.  Block
\* statements open an indented block on the following lines; the others
\* are complete on their line.
BlockStmts == {"class A:", "class B:", "def m(self):", "def g():"}

LeafStmts == {"def m(self): helper()", "def helper(): pass",
              "import os, s3 as z", "from m import s as helper, t",
              "from . import s", "helper()", "obj.process()", "f()()",
              "pass\f"}

Stmts == BlockStmts \cup LeafStmts

Lines == [stmt : Stmts, indent : 0..MaxIndent]

RECURSIVE SeqsUpTo(_, _)
\* All sequences over S of length at most n.
SeqsUpTo(S, n) ==
    IF n = 0 THEN {<<>>}
    ELSE LET shorter == SeqsUpTo(S, n - 1)
         IN  shorter \cup {Append(s, x) : s \in {t \in shorter : Len(t) = n - 1}, x \in S}

RECURSIVE Indentation(_)
Indentation(n) == IF n = 0 THEN "" ELSE "    " \o Indentation(n - 1)

\* The text of a physical line, as read_text returns it.
LineText(l) == Indentation(l.indent) \o l.stmt \o "\n"

\* str.splitlines(keepends=True) on one physical line: besides the newline
\* it breaks after a form feed (as after a vertical tab, a file, group or
\* record separator, NEL and the Unicode line and paragraph separators),
\* none of which the parser counts as the end of a line.
splitlines_line(l) ==
    IF l.stmt = "pass\f"
    THEN <<Indentation(l.indent) \o "pass\f", "\n">>
    ELSE <<LineText(l)>>

RECURSIVE splitlines(_)
\* source.splitlines(keepends=True)
splitlines(source) ==
    IF source = <<>> THEN <<>>
    ELSE splitlines_line(Head(source)) \o splitlines(Tail(source))

\* ------------------------------------------------------------ ast.parse
\* The indentation rule of the grammar: a block statement is followed by a
\* line one level deeper, any other line by a line at its level or at an
\* enclosing one.
Follows(prev, l) ==
    IF prev.stmt \in BlockStmts
    THEN l.indent = prev.indent + 1
    ELSE l.indent <= prev.indent

WellIndented(source) ==
    /\ source # <<>> => /\ source[1].indent = 0
                        /\ source[Len(source)].stmt \notin BlockStmts
    /\ \A i \in 1..(Len(source) - 1) : Follows(source[i], source[i + 1])

\* The nodes one statement parses to, in pre-order.  "up" is the position
\* in the statement of a node's parent, 0 for the statement node itself
\* (whose parent is the enclosing block or the Module).
Node(kind, name, up) ==
    [kind |-> kind, name |-> name, up |-> up, module |-> None, names |-> <<>>]

StmtNodes(stmt) ==
    CASE stmt = "class A:" -> <<Node("ClassDef", "A", 0)>>
      [] stmt = "class B:" -> <<Node("ClassDef", "B", 0)>>
      [] stmt = "def m(self):" -> <<Node("FunctionDef", "m", 0)>>
      [] stmt = "def g():" -> <<Node("FunctionDef", "g", 0)>>
      [] stmt = "def m(self): helper()" ->
            <<Node("FunctionDef", "m", 0), Node("Expr", "", 1),
              Node("Call", "", 2), Node("Name", "helper", 3)>>
      [] stmt = "def helper(): pass" ->
            <<Node("FunctionDef", "helper", 0), Node("Pass", "", 1)>>
      [] stmt = "import os, s3 as z" ->
            <<[Node("Import", "", 0) EXCEPT
                 !.names = <<[name |-> "os", asname |-> None],
                             [name |-> "s3", asname |-> "z"]>>]>>
      [] stmt = "from m import s as helper, t" ->
            <<[Node("ImportFrom", "", 0) EXCEPT
                 !.module = "m",
                 !.names = <<[name |-> "s", asname |-> "helper"],
                             [name |-> "t", asname |-> None]>>]>>
      [] stmt = "from . import s" ->
            <<[Node("ImportFrom", "", 0) EXCEPT
                 !.names = <<[name |-> "s", asname |-> None]>>]>>
      [] stmt = "helper()" ->
            <<Node("Expr", "", 0), Node("Call", "", 1), Node("Name", "helper", 2)>>
      [] stmt = "obj.process()" ->
            <<Node("Expr", "", 0), Node("Call", "", 1),
              Node("Attribute", "obj.process", 2), Node("Name", "obj", 3)>>
      [] stmt = "f()()" ->
            <<Node("Expr", "", 0), Node("Call", "", 1), Node("Call", "", 2),
              Node("Name", "f", 3)>>
      [] stmt = "pass\f" -> <<Node("Pass", "", 0)>>

RECURSIVE StmtIndex(_, _)
\* The index, among the nodes of the file, of the statement node of line i.
StmtIndex(source, i) ==
    IF i = 1 THEN 1
    ELSE StmtIndex(source, i - 1) + Len(StmtNodes(source[i - 1].stmt))

\* The line that opens the block line i stands in, 0 at top level.
BlockLine(source, i) ==
    LET above == {j \in 1..(i - 1) : source[j].indent < source[i].indent}
    IN  IF above = {} THEN 0 ELSE CHOOSE j \in above : \A k \in above : k <= j

\* The last line of the statement that starts on line i.
LastLine(source, i) ==
    LET after == {j \in (i + 1)..Len(source) : source[j].indent <= source[i].indent}
    IN  IF after = {} THEN Len(source)
        ELSE (CHOOSE j \in after : \A k \in after : j <= k) - 1

LineNodes(source, i) ==
    LET tmpl == StmtNodes(source[i].stmt)
        base == StmtIndex(source, i)
        up   == BlockLine(source, i)
    IN  [p \in 1..Len(tmpl) |->
           [kind       |-> tmpl[p].kind,
            name       |-> tmpl[p].name,
            module     |-> tmpl[p].module,
            names      |-> tmpl[p].names,
            parent     |-> IF tmpl[p].up = 0
                           THEN (IF up = 0 THEN 0 ELSE StmtIndex(source, up))
                           ELSE base + tmpl[p].up - 1,
            lineno     |-> i,
            end_lineno |-> IF p = 1 THEN LastLine(source, i) ELSE i]]

RECURSIVE NodesFrom(_, _)
NodesFrom(source, i) ==
    IF i > Len(source) THEN <<>>
    ELSE LineNodes(source, i) \o NodesFrom(source, i + 1)

\* ast.parse(source): the nodes under the Module node (node 0), in
\* pre-order, or a SyntaxError.
ast_parse(source) ==
    IF WellIndented(source)
    THEN [ok |-> TRUE, nodes |-> NodesFrom(source, 1)]
    ELSE [ok |-> FALSE, nodes |-> <<>>]

RECURSIVE Beginnings(_)
\* The texts of at most n lines that some file begins with.
Beginnings(n) ==
    IF n = 0 THEN {<<>>}
    ELSE LET shorter == Beginnings(n - 1)
             longest == {t \in shorter : Len(t) = n - 1}
             more    == {x \in longest \X Lines :
                           IF x[1] = <<>> THEN x[2].indent = 0
                           ELSE Follows(x[1][Len(x[1])], x[2])}
         IN  shorter \cup {Append(x[1], x[2]) : x \in more}

\* The source texts a run may read.  Those that parse:
GoodSources == {s \in Beginnings(MaxLines) : WellIndented(s)}

\* Those that do not: a first line that is indented, or a class or def
\* header with nothing below it at the end of the text.
BadSources ==
    {s \in Beginnings(MaxBadLines) \cup {<<l>> : l \in Lines} : ~WellIndented(s)}

GoodSourcesOfLen == [n \in 0..MaxLines |-> {s \in GoodSources : Len(s) <= n}]

\* ---------------------------------------------------------------- paths
\* The parts of the paths rglob("*.py") may yield under the repository.
Paths == {<<"repo", "app.py">>,
          <<"repo", "pkg", "auth.py">>,
          <<"repo", "venv", "lib.py">>,
          <<"repo", "pkg", "__pycache__", "mod.py">>}

NoPath == <<>>

Contains(seq, x) == \E i \in 1..Len(seq) : seq[i] = x

skip_file_venv_only(py_file) == Contains(py_file, "venv")

\* "venv" in py_file.parts or "__pycache__" in py_file.parts
skip_file(py_file) ==
    Contains(py_file, "venv") \/ Contains(py_file, "__pycache__")

\* ------------------------------------------------------- tree utilities
Range(n) == [i \in 1..n |-> i]

\* ast.iter_child_nodes(node), node 0 being the Module.
Children(tree, n) == SelectSeq(Range(Len(tree)), LAMBDA i : tree[i].parent = n)

RECURSIVE ChildrenOfAll(_, _)
ChildrenOfAll(tree, level) ==
    IF level = <<>> THEN <<>>
    ELSE Children(tree, Head(level)) \o ChildrenOfAll(tree, Tail(level))

RECURSIVE WalkLevels(_, _)
WalkLevels(tree, level) ==
    IF level = <<>> THEN <<>>
    ELSE level \o WalkLevels(tree, ChildrenOfAll(tree, level))

\* ast.walk(node): the node and its descendants, breadth first.
ast_walk(tree, n) == WalkLevels(tree, <<n>>)

\* child.func of a Call node: the first child.
CallFunc(tree, c) == tree[Head(Children(tree, c))]

\* A Python dict: a function on its keys.
EmptyDict == <<>>

DictGet(d, k) == IF k \in DOMAIN d THEN d[k] ELSE None

DictSet(d, k, v) == [x \in DOMAIN d \cup {k} |-> IF x = k THEN v ELSE d[x]]

\* seq[start:end] for 0 <= start
PySlice(seq, start, end) ==
    SubSeq(seq, start + 1, IF end < Len(seq) THEN end ELSE Len(seq))

\* ------------------------------------------------------------- the state
VARIABLES
    \* extract_chunks_from_repo
    pc,               \* "rglob": at the head of the loop; "visit": inside
                      \* extractor.visit(tree); "done": returned
    seen,             \* the paths rglob has yielded so far
    failed,           \* those of them whose read or parse raised (the code
                      \* keeps no record of them)
    lines_read,       \* physical lines of the files parsed so far
    py_file,          \* the loop variable
    all_chunks,
    \* the PythonChunkExtractor of the current file
    extractor,        \* which extractor object it is (they are numbered)
    source_lines,
    tree,             \* the nodes of ast.parse(source)
    chunks,
    imported_modules,
    imported_symbols, \* the symbols dict of every extractor made so far:
                      \* chunks hold a reference to it
    current_class,
    current_function,
    stack,            \* the frames of the visit_* calls in progress
    \* the CodeEmbedder and its store directory
    epc,              \* "new": no embedder constructed yet; "ready"
    index,
    embedder_chunks,
    id_map,
    disk,
    last              \* the last call on the embedder and its outcome

chunker_vars == <<pc, seen, failed, lines_read, py_file, all_chunks, extractor,
                  source_lines, tree, chunks, imported_modules,
                  imported_symbols, current_class, current_function, stack>>

embedder_vars == <<epc, index, embedder_chunks, id_map, disk, last>>

vars == <<chunker_vars, embedder_vars>>

\* ------------------------------------------------- PythonChunkExtractor
\* One call reference of _extract_calls.
CallRef(name, resolved_via, module) ==
    [name |-> name, resolved_via |-> resolved_via, module |-> module]

RECURSIVE CallsOf(_, _, _)
\* The loop of _extract_calls over the nodes ast.walk yields.
CallsOf(t, symbols, walk) ==
    IF walk = <<>> THEN <<>>
    ELSE LET child == t[Head(walk)]
             func  == CallFunc(t, Head(walk))
             rest  == CallsOf(t, symbols, Tail(walk))
         IN  IF child.kind # "Call" THEN rest
             ELSE IF func.kind = "Name"
             THEN <<CallRef(func.name,
                            IF func.name \in DOMAIN symbols
                            THEN "import" ELSE "local_or_unknown",
                            DictGet(symbols, func.name))>> \o rest
             ELSE IF func.kind = "Attribute"
             THEN <<CallRef(func.name, "attribute", None)>> \o rest
             ELSE rest

RECURSIVE FirstOfEachName(_)
FirstOfEachName(calls) ==
    IF calls = <<>> THEN <<>>
    ELSE LET before == FirstOfEachName(SubSeq(calls, 1, Len(calls) - 1))
             c      == calls[Len(calls)]
         IN  IF \E i \in 1..Len(before) : before[i].name = c.name
             THEN before ELSE Append(before, c)

extract_calls_once_per_name(t, symbols, n) ==
    FirstOfEachName(CallsOf(t, symbols, ast_walk(t, n)))

\* self._extract_calls(node), with self.imported_symbols as it is now
extract_calls(t, symbols, n) == CallsOf(t, symbols, ast_walk(t, n))

create_chunk_end_exclusive(node, chunk_type, name, calls, file_path, lines, cls, modules, symbols_ref) ==
    LET start == node.lineno - 1
        end   == node.end_lineno
    IN  [type       |-> chunk_type,
         name       |-> name,
         file_path  |-> file_path,
         start_line |-> start + 1,
         end_line   |-> end,
         class      |-> cls,
         imports    |-> [modules |-> modules, symbols |-> symbols_ref],
         calls      |-> calls,
         code       |-> PySlice(lines, start, end - 1)]

\* The record _create_chunk appends for a node.  "symbols" holds the
\* extractor's dict itself, not a copy: it is modelled by the number of
\* the extractor that owns the dict.
create_chunk(node, chunk_type, name, calls, file_path, lines, cls, modules, symbols_ref) ==
    LET start == node.lineno - 1
        end   == node.end_lineno
    IN  [type       |-> chunk_type,
         name       |-> name,
         file_path  |-> file_path,
         start_line |-> start + 1,
         end_line   |-> end,
         class      |-> cls,
         imports    |-> [modules |-> modules, symbols |-> symbols_ref],
         calls      |-> calls,
         code       |-> PySlice(lines, start, end)]

\* The frame of the visit in progress and the child it is about to visit.
Top == stack[Len(stack)]

TopChildren == Children(tree, Top.node)

AtChild == pc = "visit" /\ Top.next <= Len(TopChildren)

Child == TopChildren[Top.next]

AtReturn == pc = "visit" /\ Top.next > Len(TopChildren)

Frame(n, prev) == [node |-> n, next |-> 1, prev |-> prev]

\* The caller's loop in generic_visit moves on to the next child.
Advanced == [stack EXCEPT ![Len(stack)].next = @ + 1]

Popped == SubSeq(stack, 1, Len(stack) - 1)

embedder_idle == UNCHANGED embedder_vars

driver_idle == UNCHANGED <<pc, seen, failed, lines_read, py_file, all_chunks, extractor,
                           source_lines, tree>>

\* visit_Import: every alias adds its module name; the aliases below the
\* node have no visitor of their own.
VisitImport ==
    /\ AtChild
    /\ tree[Child].kind = "Import"
    /\ imported_modules' = imported_modules \cup
           {tree[Child].names[i].name : i \in 1..Len(tree[Child].names)}
    /\ stack' = Advanced
    /\ UNCHANGED <<chunks, imported_symbols, current_class, current_function>>
    /\ driver_idle /\ embedder_idle

RECURSIVE AddSymbols(_, _, _)
\* The loop of visit_ImportFrom over node.names.
AddSymbols(d, names, module) ==
    IF names = <<>> THEN d
    ELSE AddSymbols(DictSet(d, IF Head(names).asname # None
                               THEN Head(names).asname ELSE Head(names).name,
                            module),
                    Tail(names), module)

\* visit_ImportFrom: nothing is recorded for "from . import x", whose
\* module is None.
VisitImportFrom ==
    /\ AtChild
    /\ tree[Child].kind = "ImportFrom"
    /\ imported_symbols' =
           IF tree[Child].module # None
           THEN [imported_symbols EXCEPT
                   ![extractor] = AddSymbols(@, tree[Child].names, tree[Child].module)]
           ELSE imported_symbols
    /\ stack' = Advanced
    /\ UNCHANGED <<chunks, imported_modules, current_class, current_function>>
    /\ driver_idle /\ embedder_idle

\* visit_ClassDef up to its generic_visit call.
VisitClassDef ==
    /\ AtChild
    /\ tree[Child].kind = "ClassDef"
    /\ current_class' = tree[Child].name
    /\ chunks' = Append(chunks,
           create_chunk(tree[Child], "class", tree[Child].name, <<>>,
                        py_file, source_lines, current_class',
                        imported_modules, extractor))
    /\ stack' = Append(Advanced, Frame(Child, current_class))
    /\ UNCHANGED <<imported_modules, imported_symbols, current_function>>
    /\ driver_idle /\ embedder_idle

LeaveClassDef_reset ==
    /\ AtReturn
    /\ Top.node # 0
    /\ tree[Top.node].kind = "ClassDef"
    /\ current_class' = None
    /\ stack' = Popped
    /\ UNCHANGED <<chunks, imported_modules, imported_symbols, current_function>>
    /\ driver_idle /\ embedder_idle

\* visit_ClassDef after generic_visit: self.current_class = prev_class
LeaveClassDef ==
    /\ AtReturn
    /\ Top.node # 0
    /\ tree[Top.node].kind = "ClassDef"
    /\ current_class' = Top.prev
    /\ stack' = Popped
    /\ UNCHANGED <<chunks, imported_modules, imported_symbols, current_function>>
    /\ driver_idle /\ embedder_idle

\* visit_FunctionDef up to its generic_visit call.
VisitFunctionDef ==
    /\ AtChild
    /\ tree[Child].kind = "FunctionDef"
    /\ current_function' = tree[Child].name
    /\ chunks' = Append(chunks,
           create_chunk(tree[Child],
                        IF current_class # None THEN "method" ELSE "function",
                        tree[Child].name,
                        extract_calls(tree, imported_symbols[extractor], Child),
                        py_file, source_lines, current_class,
                        imported_modules, extractor))
    /\ stack' = Append(Advanced, Frame(Child, current_function))
    /\ UNCHANGED <<imported_modules, imported_symbols, current_class>>
    /\ driver_idle /\ embedder_idle

\* visit_FunctionDef after generic_visit: self.current_function = prev_function
LeaveFunctionDef ==
    /\ AtReturn
    /\ Top.node # 0
    /\ tree[Top.node].kind = "FunctionDef"
    /\ current_function' = Top.prev
    /\ stack' = Popped
    /\ UNCHANGED <<chunks, imported_modules, imported_symbols, current_class>>
    /\ driver_idle /\ embedder_idle

\* A node with no visit_* method: generic_visit walks its subtree, which
\* holds no class, function or import node (expressions and pass).
HandledKinds == {"ClassDef", "FunctionDef", "Import", "ImportFrom"}

VisitOther ==
    /\ AtChild
    /\ tree[Child].kind \notin HandledKinds
    /\ \A i \in 1..Len(ast_walk(tree, Child)) :
          tree[ast_walk(tree, Child)[i]].kind \notin HandledKinds
    /\ stack' = Advanced
    /\ UNCHANGED <<chunks, imported_modules, imported_symbols, current_class,
                   current_function>>
    /\ driver_idle /\ embedder_idle

\* --------------------------------------------- extract_chunks_from_repo
MoreFiles == pc = "rglob" /\ Cardinality(seen) < MaxFiles

extractor_kept == UNCHANGED <<extractor, source_lines, tree, chunks,
                              imported_modules, imported_symbols,
                              current_class, current_function, stack>>

\* rglob yields a path under an excluded directory: continue.
SkipExcluded(p) ==
    /\ MoreFiles
    /\ skip_file(p)
    /\ py_file' = p
    /\ seen' = seen \cup {p}
    /\ UNCHANGED <<pc, failed, lines_read, all_chunks>>
    /\ extractor_kept /\ embedder_idle

\* read_text raises (a directory, no permission, not UTF-8): continue.
ReadFails(p) ==
    /\ MoreFiles
    /\ ~skip_file(p)
    /\ py_file' = p
    /\ seen' = seen \cup {p}
    /\ failed' = failed \cup {p}
    /\ UNCHANGED <<pc, lines_read, all_chunks>>
    /\ extractor_kept /\ embedder_idle

\* ast.parse raises SyntaxError: continue.
ParseFails(p, source) ==
    /\ MoreFiles
    /\ ~skip_file(p)
    /\ ~ast_parse(source).ok
    /\ py_file' = p
    /\ seen' = seen \cup {p}
    /\ failed' = failed \cup {p}
    /\ UNCHANGED <<pc, lines_read, all_chunks>>
    /\ extractor_kept /\ embedder_idle

\* The file parses: a new extractor is made and visit(tree) starts at the
\* Module node.
StartFile(p, source) ==
    /\ MoreFiles
    /\ ~skip_file(p)
    /\ ast_parse(source).ok
    /\ py_file' = p
    /\ seen' = seen \cup {p}
    /\ lines_read' = lines_read + Len(source)
    /\ extractor' = extractor + 1
    /\ source_lines' = splitlines(source)
    /\ tree' = ast_parse(source).nodes
    /\ chunks' = <<>>
    /\ imported_modules' = {}
    /\ imported_symbols' = Append(imported_symbols, EmptyDict)
    /\ current_class' = None
    /\ current_function' = None
    /\ stack' = <<Frame(0, None)>>
    /\ pc' = "visit"
    /\ UNCHANGED <<failed, all_chunks>>
    /\ embedder_idle

\* visit(tree) returns: all_chunks.extend(extractor.chunks)
FinishFile ==
    /\ AtReturn
    /\ Top.node = 0
    /\ all_chunks' = all_chunks \o chunks
    /\ stack' = <<>>
    /\ pc' = "rglob"
    /\ UNCHANGED <<seen, failed, lines_read, py_file, extractor, source_lines, tree,
                   chunks, imported_modules, imported_symbols, current_class,
                   current_function>>
    /\ embedder_idle

\* rglob is exhausted: return all_chunks
Return ==
    /\ pc = "rglob"
    /\ pc' = "done"
    /\ UNCHANGED <<seen, failed, lines_read, py_file, all_chunks>>
    /\ extractor_kept /\ embedder_idle

\* What the function returns: the chunk list and nothing else.
RunResult == [chunks |-> all_chunks]

InitChunker ==
    /\ pc = "rglob"
    /\ seen = {}
    /\ failed = {}
    /\ lines_read = 0
    /\ py_file = NoPath
    /\ all_chunks = <<>>
    /\ extractor = 0
    /\ source_lines = <<>>
    /\ tree = <<>>
    /\ chunks = <<>>
    /\ imported_modules = {}
    /\ imported_symbols = <<>>
    /\ current_class = None
    /\ current_function = None
    /\ stack = <<>>

\* --------------------------------------------------------- CodeEmbedder
\* An optional value: <<>> is None (or a file that does not exist), <<v>>
\* is the value v.
Absent == <<>>

Some(v) == <<v>>

\* The chunk records handed to the embedder, each standing for a dict with
\* its retrieval_text.
ChunkTokens == {"chunk a", "chunk b"}

ChunkLists == SeqsUpTo(ChunkTokens, MaxChunks)

\* self.model.encode(texts): one vector per text.
encode(texts) == [i \in 1..Len(texts) |-> [embedding_of |-> texts[i]]]

\* {str(i): i for i in range(len(chunks))}
make_id_map(cs) == [i \in 0..(Len(cs) - 1) |-> i]

NoFiles == [index_faiss |-> Absent, chunks_json |-> Absent, id_map_json |-> Absent]

Outcome(op, cs, k, outcome, results) ==
    [op |-> op, chunks |-> cs, k |-> k, outcome |-> outcome, results |-> results]

chunker_idle == UNCHANGED chunker_vars

\* test.py writes the extracted chunks to output/chunks.json, in the
\* embedder's store directory, before it constructs the embedder.
DumpChunks(cs) ==
    /\ disk' = [disk EXCEPT !.chunks_json = Some(cs)]
    /\ epc' = "new"
    /\ last' = Outcome("dump", cs, 0, "ok", <<>>)
    /\ UNCHANGED <<index, embedder_chunks, id_map>>
    /\ chunker_idle

\* CodeEmbedder.__init__ with _load_if_exists: each of the three files is
\* loaded if it exists, whatever the other two.
Construct ==
    /\ epc' = "ready"
    /\ index' = disk.index_faiss
    /\ embedder_chunks' = IF disk.chunks_json # Absent THEN disk.chunks_json[1] ELSE <<>>
    /\ id_map' = IF disk.id_map_json # Absent THEN disk.id_map_json[1] ELSE <<>>
    /\ last' = Outcome("init", <<>>, 0, "ok", <<>>)
    /\ UNCHANGED disk
    /\ chunker_idle

build_index_rebuilds(cs) ==
    /\ epc = "ready"
    /\ index' = Some(encode(cs))
    /\ embedder_chunks' = cs
    /\ id_map' = make_id_map(cs)
    /\ disk' = [index_faiss |-> index', chunks_json |-> Some(embedder_chunks'),
                id_map_json |-> Some(id_map')]
    /\ last' = Outcome("build_index", cs, 0, "built", <<>>)
    /\ UNCHANGED epc
    /\ chunker_idle

\* build_index(chunks): a no-op when there is an index; else it builds the
\* index, stores the chunks and the id map and persists all three.  With
\* no chunk at all, encode returns an array with one axis or with two,
\* by the library's version: embeddings.shape[1] raises IndexError before
\* anything is assigned, or an index of no vectors is built.
build_index(cs) ==
    /\ epc = "ready"
    /\ \/ /\ index # Absent
          /\ last' = Outcome("build_index", cs, 0, "skipped", <<>>)
          /\ UNCHANGED <<index, embedder_chunks, id_map, disk>>
       \/ /\ index = Absent
          /\ cs = <<>>
          /\ last' = Outcome("build_index", cs, 0, "IndexError", <<>>)
          /\ UNCHANGED <<index, embedder_chunks, id_map, disk>>
       \/ /\ index = Absent
          /\ index' = Some(encode(cs))
          /\ embedder_chunks' = cs
          /\ id_map' = make_id_map(cs)
          /\ disk' = [index_faiss |-> index', chunks_json |-> Some(embedder_chunks'),
                      id_map_json |-> Some(id_map')]
          /\ last' = Outcome("build_index", cs, 0, "built", <<>>)
    /\ UNCHANGED epc
    /\ chunker_idle

\* The ids index.search returns for one query: the ids of k vectors in
\* the order of their scores, filled up with -1 when the index holds
\* fewer than k.
TopK(ntotal, k) ==
    {ids \in [1..k -> -1..(ntotal - 1)] :
        /\ \A i \in 1..k : (ids[i] = -1) <=> (i > ntotal)
        /\ \A i, j \in 1..k : (i # j /\ ids[i] # -1) => ids[i] # ids[j]}

\* self.chunks[idx]: a negative idx counts from the end.
Subscriptable(cs, idx) == IF idx < 0 THEN -idx <= Len(cs) ELSE idx < Len(cs)

Subscript(cs, idx) == IF idx < 0 THEN cs[Len(cs) + idx + 1] ELSE cs[idx + 1]

search_unbuilt_is_empty(k, ids) ==
    /\ epc = "ready"
    /\ index = Absent
    /\ ids = <<>>
    /\ last' = Outcome("search", <<>>, k, "ok", <<>>)
    /\ UNCHANGED <<epc, index, embedder_chunks, id_map, disk>>
    /\ chunker_idle

\* search(query, k): raises when there is no index; else one result per
\* id returned, read from self.chunks.
search(k, ids) ==
    /\ epc = "ready"
    /\ IF index = Absent
       THEN /\ ids = <<>>
            /\ last' = Outcome("search", <<>>, k, "RuntimeError", <<>>)
       ELSE /\ ids \in TopK(Len(index[1]), k)
            /\ last' =
                 IF \A i \in 1..k : Subscriptable(embedder_chunks, ids[i])
                 THEN Outcome("search", <<>>, k, "ok",
                              [i \in 1..k |-> Subscript(embedder_chunks, ids[i])])
                 ELSE Outcome("search", <<>>, k, "IndexError", <<>>)
    /\ UNCHANGED <<epc, index, embedder_chunks, id_map, disk>>
    /\ chunker_idle

IdLists == {<<>>} \cup UNION {[1..k -> -1..(MaxChunks - 1)] : k \in 1..MaxK}

InitEmbedder ==
    /\ epc = "new"
    /\ index = Absent
    /\ embedder_chunks = <<>>
    /\ id_map = <<>>
    /\ disk = NoFiles
    /\ last = Outcome("none", <<>>, 0, "ok", <<>>)

NextEmbedder ==
    \/ \E cs \in ChunkLists : DumpChunks(cs)
    \/ Construct
    \/ \E cs \in ChunkLists : build_index(cs)
    \/ \E k \in 1..MaxK : \E ids \in IdLists : search(k, ids)

Init == InitChunker /\ InitEmbedder

\* rglob yields each path once, in any order; the files that parse hold at
\* most MaxLines lines between them.
Next ==
    \/ \E p \in Paths \ seen : SkipExcluded(p)
    \/ \E p \in Paths \ seen : ReadFails(p)
    \/ \E p \in Paths \ seen : \E source \in BadSources : ParseFails(p, source)
    \/ \E p \in Paths \ seen :
          \E source \in GoodSourcesOfLen[MaxLines - lines_read] : StartFile(p, source)
    \/ VisitImport
    \/ VisitImportFrom
    \/ VisitClassDef
    \/ LeaveClassDef
    \/ VisitFunctionDef
    \/ LeaveFunctionDef
    \/ VisitOther
    \/ FinishFile
    \/ Return

Spec == Init /\ [][Next]_vars

EmbedderSpec == Init /\ [][NextEmbedder]_vars

\* ----------------------------------------------------------- properties
\* The definition node a chunk of the current file was made for: the class
\* or function statement on its first line.
DefKinds == {"ClassDef", "FunctionDef"}

NodeOfChunk(c) ==
    CHOOSE n \in 1..Len(tree) :
        tree[n].kind \in DefKinds /\ tree[n].lineno = c.start_line

RECURSIVE IsUnder(_, _)
\* Node i is node n or one of its descendants.
IsUnder(i, n) ==
    IF i = n THEN TRUE
    ELSE IF i = 0 THEN FALSE
    ELSE IsUnder(tree[i].parent, n)

RECURSIVE NearestOfKind(_, _)
\* The name of node n if it is of the kind, else of its nearest ancestor
\* of the kind, None when there is none.
NearestOfKind(n, kind) ==
    IF n = 0 THEN None
    ELSE IF tree[n].kind = kind THEN tree[n].name
    ELSE NearestOfKind(tree[n].parent, kind)

\* The import context a chunk shows to a reader of the chunk list.
ImportContext(c) ==
    [modules |-> c.imports.modules, symbols |-> imported_symbols[c.imports.symbols]]

ChunkImports == [i \in 1..Len(chunks) |-> ImportContext(chunks[i])]

\* C1: the import context of a chunk is a snapshot: while the extractor
\* walks on through the file, no later import statement changes the modules
\* or the symbols of a chunk that already exists.
C1_ImportContextIsSnapshot ==
    [][extractor' = extractor =>
         \A i \in 1..Len(chunks) : ChunkImports'[i] = ChunkImports[i]]_vars

\* C2: in the result of a run, a file that could not be read or parsed has
\* no chunk, and the result's skipped-file count is the number of such files.
C2_FailedFileIsCountedAsSkipped ==
    (pc = "done" /\ failed # {}) =>
        /\ \A i \in 1..Len(all_chunks) : all_chunks[i].file_path \notin failed
        /\ "skipped" \in DOMAIN RunResult
        /\ RunResult.skipped = Cardinality(failed)

\* C3: a search on an embedder that has no index ends in an error, with no
\* result list, and leaves the index, the stored chunks and the id map as
\* they were.
C3_SearchWithoutIndexFails ==
    [][(last'.op = "search" /\ epc = "ready" /\ index = Absent) =>
         /\ last'.outcome = "RuntimeError"
         /\ last'.results = <<>>
         /\ UNCHANGED <<index, embedder_chunks, id_map>>]_vars

C3_Witness ==
    /\ last.op = "search"
    /\ last.outcome = "RuntimeError"
    /\ index = Absent
    /\ embedder_chunks # <<>>

C6Source ==
    <<[stmt |-> "class A:", indent |-> 0],
      [stmt |-> "def m(self): helper()", indent |-> 1],
      [stmt |-> "def helper(): pass", indent |-> 0]>>

\* C6: the file with class A, its method m that calls helper(), and the
\* top-level function helper gives the chunks A, A.m and helper, and the
\* calls of A.m are one entry for helper that carries the id of the helper
\* chunk and the line of the call.
C6_EndToEndResolvedCall ==
    (pc = "done" /\ Cardinality(seen) = 1 /\ extractor = 1
       /\ source_lines = splitlines(C6Source)) =>
        /\ Len(all_chunks) = 3
        /\ [i \in 1..3 |-> all_chunks[i].name] = <<"A", "A.m", "helper">>
        /\ Len(all_chunks[2].calls) = 1
        /\ all_chunks[2].calls[1].name = "helper"
        /\ "id" \in DOMAIN all_chunks[3]
        /\ DOMAIN all_chunks[2].calls[1] = {"name", "target_chunk_id", "line"}
        /\ all_chunks[2].calls[1].target_chunk_id = all_chunks[3].id
        /\ all_chunks[2].calls[1].line = 2

\* A path below a directory that the driver leaves out.
UnderExcludedDir(path) ==
    \E i \in 1..Len(path) : path[i] \in {"venv", "__pycache__"}

\* C7: no chunk of the result, nor of any extractor, comes from a path with
\* a component named venv or __pycache__.
C7_ExcludedFileContributesNothing ==
    /\ \A i \in 1..Len(all_chunks) : ~UnderExcludedDir(all_chunks[i].file_path)
    /\ \A i \in 1..Len(chunks) : ~UnderExcludedDir(chunks[i].file_path)

C7_Witness ==
    /\ pc = "done"
    /\ \E p \in seen : Contains(p, "__pycache__")
    /\ all_chunks # <<>>

\* The call expressions in the subtree of node n.
CallsUnder(n) == {i \in 1..Len(tree) : tree[i].kind = "Call" /\ IsUnder(i, n)}

\* The callee of call expression i: its first child.
Callee(i) ==
    tree[CHOOSE j \in 1..Len(tree) :
           /\ tree[j].parent = i
           /\ \A k \in 1..Len(tree) : tree[k].parent = i => j <= k]

FunctionChunks == {i \in 1..Len(chunks) : chunks[i].type \in {"function", "method"}}

\* C8, as claimed: the raw calls of a function or method chunk are as many
\* as the call expressions in its subtree, whatever their callee.
C8_OneReferencePerCallExpression ==
    \A i \in FunctionChunks :
        Len(chunks[i].calls) = Cardinality(CallsUnder(NodeOfChunk(chunks[i])))

\* C8, amended: the raw calls of a function or method chunk are as many as
\* the call expressions in its subtree whose callee is a bare identifier or
\* an attribute access, name by name, repeated calls of one name counted
\* each; a call expression with any other callee gives no entry.
C8_OneReferencePerNamedCall ==
    \A i \in FunctionChunks :
        LET named == {c \in CallsUnder(NodeOfChunk(chunks[i])) :
                         Callee(c).kind \in {"Name", "Attribute"}}
            refs  == chunks[i].calls
        IN  /\ Len(refs) = Cardinality(named)
            /\ \A c \in named :
                 Cardinality({k \in 1..Len(refs) : refs[k].name = Callee(c).name})
                   = Cardinality({d \in named : Callee(d).name = Callee(c).name})

C8_Witness ==
    \E i \in FunctionChunks :
        /\ Len(chunks[i].calls) = 2
        /\ chunks[i].calls[1].name = chunks[i].calls[2].name
        /\ Cardinality(CallsUnder(NodeOfChunk(chunks[i]))) = 4

\* The nearest class around the definition node n.
EnclosingClass(n) == NearestOfKind(tree[n].parent, "ClassDef")

\* C9: the class of a chunk is the name of the nearest class around its
\* definition, None when there is none, and a function definition gives a
\* method chunk exactly when there is one.
C9_ClassContextIsEnclosingClass ==
    \A i \in 1..Len(chunks) :
        LET n == NodeOfChunk(chunks[i])
        IN  /\ chunks[i].class = EnclosingClass(n)
            /\ tree[n].kind = "FunctionDef" =>
                 (chunks[i].type = "method" <=> EnclosingClass(n) # None)

\* C10: between any two nodes of a walk, current_class and current_function
\* are the nearest class and function around the place the visitor has
\* returned to, so each return puts back what held before the node was
\* entered; outside a walk, before a file and after it, both are None.
C10_ScopeFollowsTheStack ==
    IF pc = "visit"
    THEN /\ current_class = NearestOfKind(Top.node, "ClassDef")
         /\ current_function = NearestOfKind(Top.node, "FunctionDef")
    ELSE current_class = None /\ current_function = None

C10_Witness ==
    /\ pc = "visit"
    /\ Top.node # 0
    /\ tree[Top.node].kind = "ClassDef"
    /\ tree[Top.node].parent = 0
    /\ Top.next = 2
    /\ tree[TopChildren[1]].kind = "ClassDef"
    /\ current_class = tree[Top.node].name
    /\ current_class # tree[TopChildren[1]].name

====
